---- MODULE Spec2Model ----
(***************************************************************************)
(* Broadcast lifecycle of broadcast_bot.py: the StateStore (in-memory      *)
(* state, asyncio lock, snapshot file), the handlers on_callback,          *)
(* broadcast / broadcast_simple, register_chat / unregister_chat, the      *)
(* expire_job of the job queue and the startup hook post_init.             *)
(*                                                                         *)
(* Every handler is an asyncio task.  A task runs without interruption     *)
(* until it suspends: on a network call (q.answer, send, edit, reply),     *)
(* on asyncio.to_thread (the snapshot write inside save) or on the         *)
(* StateStore lock when the lock is held or has waiters (asyncio.Lock is   *)
(* FIFO: with a waiter queued, acquire() parks the caller even if the      *)
(* lock is free).  `running` is the task that is executing synchronously.  *)
(***************************************************************************)
EXTENDS Integers, Sequences, FiniteSets, TLC

\* ---------------------------------------------------------------- bounds
MaxBroadcasts == 1      \* broadcasts created in one run
MaxInFlight == 1        \* on_callback tasks in flight together under Spec
MaxCallbacks == 3       \* callback queries that arrive in one run
MaxFaults == 1          \* sends, edits and snapshot writes that fail in one run
MaxTicks == 1           \* clock advances
MaxRestarts == 1        \* process restarts
MaxAnswers == 5         \* transient answers of the transport to one safe_send_text

\* ------------------------------------------------------------- constants
SecPerMin == 60                     \* seconds per minute of ttl_min
MaxTries == 3                       \* retries of safe_send_text after TimedOut / NetworkError
Users == {1, 2}                     \* Telegram user ids
ADMIN_IDS == {1}                    \* ids read from the environment
Chats == {10, 20}                   \* chat ids
TtlChoices == {1}                   \* ttl_min values a creation carries
Texts == {"", "t"}                  \* request bodies a creation carries
Bids == 1..MaxBroadcasts            \* uuid4 values, in order of allocation
Actions == {"claim", "unclaim", "done"}

None == <<>>                        \* Python None for claimed_by
NoTask == <<"none", 0>>
CbTasks == {<<"cb", i>> : i \in 1..MaxInFlight + 1}
CrTask == <<"cr", 0>>
RgTask == <<"rg", 0>>
ExTask(b) == <<"ex", b>>

\* ----------------------------------------------------------------- models
\* MessageRef
MessageRef(chat_id, message_id) == [chat_id |-> chat_id, message_id |-> message_id]

\* Claimer
Claimer(id, name) == <<id, name>>
ClaimerId(c) == c[1]
ClaimerName(c) == c[2]

\* Broadcast(id, text, created_ts, ttl_min): the remaining fields take defaults
Broadcast(id, text, created_ts, ttl_min) ==
    [id |-> id, text |-> text, created_ts |-> created_ts, ttl_min |-> ttl_min,
     messages |-> <<>>, claimed_by |-> None, expired |-> FALSE, done |-> FALSE]

\* the value broadcasts.get(bid) gives for a missing key
NoBc == Broadcast(0, "", 0, 0)

deadline_ts(bc) == bc.created_ts + bc.ttl_min * SecPerMin

\* JSON null, as the dict form of a record holds it
JNull == [null |-> TRUE]

\* dataclasses.asdict(bc): the dict form kept in _state["broadcasts"]; the
\* nested MessageRef and Claimer objects become dicts, None stays null
asdict(bc) ==
    [id |-> bc.id, text |-> bc.text, created_ts |-> bc.created_ts, ttl_min |-> bc.ttl_min,
     messages |-> [i \in 1..Len(bc.messages) |->
                      [chat_id |-> bc.messages[i].chat_id,
                       message_id |-> bc.messages[i].message_id]],
     claimed_by |-> IF bc.claimed_by = None THEN JNull
                    ELSE [id |-> ClaimerId(bc.claimed_by),
                          name |-> ClaimerName(bc.claimed_by)],
     expired |-> bc.expired, done |-> bc.done]

\* _from_dict with the claimer dropped
_from_dict_NoClaimer(raw) ==
    [Broadcast(raw.id, raw.text, raw.created_ts, raw.ttl_min) EXCEPT
        !.messages = [i \in 1..Len(raw.messages) |->
                         MessageRef(raw.messages[i].chat_id, raw.messages[i].message_id)],
        !.expired = raw.expired,
        !.done = raw.done]

\* StateStore._from_dict: the Broadcast object of a dict form
_from_dict(raw) ==
    [Broadcast(raw.id, raw.text, raw.created_ts, raw.ttl_min) EXCEPT
        !.messages = [i \in 1..Len(raw.messages) |->
                         MessageRef(raw.messages[i].chat_id, raw.messages[i].message_id)],
        !.claimed_by = IF raw.claimed_by = JNull THEN None
                       ELSE Claimer(raw.claimed_by.id, raw.claimed_by.name),
        !.expired = raw.expired,
        !.done = raw.done]

\* the entry of _state["broadcasts"] under a key that is not there
NoRaw == asdict(NoBc)

\* StateStore.__init__: the initial _state (admins are ADMIN_IDS throughout)
EmptyState == [chats |-> <<>>, broadcasts |-> [b \in Bids |-> NoRaw]]

\* json.dump(self._state): the chat list in its order and the broadcasts
\* object as its members (key, dict form), in order of insertion
RECURSIVE Members(_, _)
Members(st, b) ==
    IF b > MaxBroadcasts THEN <<>>
    ELSE (IF st.broadcasts[b].id # 0 THEN <<<<b, st.broadcasts[b]>>>> ELSE <<>>)
         \o Members(st, b + 1)
json_dump(st) == [chats |-> st.chats, broadcasts |-> Members(st, 1)]

\* json.load: the dict with the members of the document
json_load(doc) ==
    [chats |-> doc.chats,
     broadcasts |-> [b \in Bids |->
         IF \E i \in 1..Len(doc.broadcasts) : doc.broadcasts[i][1] = b
         THEN (CHOOSE m \in {doc.broadcasts[i] : i \in 1..Len(doc.broadcasts)} : m[1] = b)[2]
         ELSE NoRaw]]

\* a path without a file, or with a file: `whole` says that its content is a
\* complete JSON document, `data` is the document
NoTmp == [exists |-> FALSE, whole |-> TRUE, data |-> json_dump(EmptyState)]
NoFile == [exists |-> FALSE, whole |-> TRUE, data |-> json_dump(EmptyState), tmp |-> NoTmp]

\* _write_json_atomic through to os.replace: the final path takes the whole
\* new document and the temporary path is gone
Snapshot(st) == [exists |-> TRUE, whole |-> TRUE, data |-> json_dump(st), tmp |-> NoTmp]

\* ------------------------------------------------------------- utilities
\* the Telegram profile of a user: the two users carry the same first name
\* and neither has a last name or a username
Profile(u) == [first_name |-> "Bob", last_name |-> "", username |-> ""]

\* human_name: the display name built from the user's profile
human_name(u) ==
    LET p == Profile(u)
        parts == SelectSeq(<<p.first_name, p.last_name>>, LAMBDA x : x # "")
        base == IF Len(parts) = 2 THEN parts[1] \o " " \o parts[2]
                ELSE IF Len(parts) = 1 THEN parts[1]
                ELSE IF p.username # "" THEN p.username
                ELSE "id"
    IN  IF p.username # "" THEN base \o " (@" \o p.username \o ")" ELSE base

\* build_keyboard: the set of callback actions offered
build_keyboard(bc) ==
    IF bc.expired THEN {}
    ELSE IF bc.claimed_by = None THEN {"claim"}
    ELSE IF ~bc.done THEN {"unclaim", "done"}
    ELSE {}

\* render_message: the status line; id stands for the immutable header
render_message(bc) ==
    [id |-> bc.id,
     status |-> IF bc.expired THEN "expired"
                ELSE IF bc.done THEN "done"
                ELSE IF bc.claimed_by # None THEN "claimed"
                ELSE "open",
     who |-> IF bc.expired THEN ""
             ELSE IF bc.done
                  THEN (IF bc.claimed_by # None THEN ClaimerName(bc.claimed_by) ELSE "-")
             ELSE IF bc.claimed_by # None THEN ClaimerName(bc.claimed_by)
             ELSE ""]

\* what a chat shows for one message: text and inline keyboard
View(text, kb) == [text |-> text, kb |-> kb]

\* outcomes of one send or edit at the transport: delivered, Forbidden (the
\* bot is out of the chat), or any other exception
Outcomes == {"ok", "forbidden", "error"}

\* transient answers of the transport to send_message, which safe_send_text
\* catches itself: RetryAfter, TimedOut, NetworkError
Transients == {"retry_after", "timed_out", "network_error"}

\* sequence helpers
SeqRemove(s, x) == SelectSeq(s, LAMBDA y : y # x)
SeqHas(s, x) == \E i \in 1..Len(s) : s[i] = x

VARIABLES
    now,          \* now_ts()
    state,        \* StateStore._state
    file,         \* the snapshot at STATE_FILE
    locked,       \* StateStore._lock is held (across a suspension: by save)
    waiters,      \* tasks parked on StateStore._lock, FIFO
    running,      \* the task executing synchronously, or NoTask
    wr,           \* the thread of asyncio.to_thread inside _write_json_atomic
    shown,        \* per chat, the messages it shows (index = message_id)
    nextBid,      \* next uuid4
    cbs,          \* on_callback tasks
    cr,           \* broadcast / broadcast_simple task
    rg,           \* register_chat / unregister_chat task
    exs,          \* expire_job per broadcast id
    pi,           \* post_init
    restarts,     \* restarts so far
    arrived,      \* callback queries so far
    faults,       \* failed sends and edits so far
    everExpired,  \* history: ids whose stored expired flag was seen true
    everDone,     \* history: ids whose stored done flag was seen true
    bootOverdue   \* history: ids post_init found overdue in the loaded state

lockVars == <<locked, waiters, running, wr>>
taskVars == <<cbs, cr, rg, exs, pi>>
histVars == <<everExpired, everDone, bootOverdue>>
vars == <<now, state, file, locked, waiters, running, wr, shown, nextBid,
          cbs, cr, rg, exs, pi, restarts, arrived, faults, everExpired, everDone, bootOverdue>>

\* ---------------------------------------------------------- task records
CbIdle == [pc |-> "idle", action |-> "claim", bid |-> 0, user |-> 0, bc |-> NoBc,
           idx |-> 0, result |-> "", forbidden |-> {}]
CrIdle == [pc |-> "idle", kind |-> "", user |-> 0, text |-> "", ttl |-> 0,
           chats |-> <<>>, bc |-> NoBc, idx |-> 0, reply |-> "", tries |-> 0, again |-> 0]
RgIdle == [pc |-> "idle", op |-> "", user |-> 0, chat |-> 0, reply |-> ""]
ExIdle == [pc |-> "none", at |-> 0, bc |-> NoBc, idx |-> 0]
PiBoot == [pc |-> "load", todo |-> <<>>, bc |-> NoBc, idx |-> 0]

\* the process right after construction (STATE = StateStore(STATE_FILE), line
\* 193), before post_init, with snapshot f on disk
Boot(f) ==
    /\ now = 0
    /\ state = EmptyState
    /\ file = f
    /\ locked = FALSE
    /\ waiters = <<>>
    /\ running = NoTask
    /\ wr = "idle"
    /\ shown = [c \in Chats |-> <<>>]
    /\ nextBid = 1
    /\ cbs = [t \in CbTasks |-> CbIdle]
    /\ cr = CrIdle
    /\ rg = RgIdle
    /\ exs = [b \in Bids |-> ExIdle]
    /\ pi = PiBoot
    /\ restarts = 0
    /\ arrived = 0
    /\ faults = 0
    /\ everExpired = {}
    /\ everDone = {}
    /\ bootOverdue = {}

\* a start with the snapshot an earlier run left after two /register commands
Init == Boot(Snapshot([EmptyState EXCEPT !.chats = <<10, 20>>]))

\* the very first start: no snapshot file yet
InitFresh == Boot(NoFile)

\* ---------------------------------------------------------------- history
Flagged(st, f) == {b \in Bids : st.broadcasts[b][f]}

\* the stored flags after a change of the state are recorded
Seen ==
    /\ everExpired' = everExpired \cup Flagged(state', "expired")
    /\ everDone' = everDone \cup Flagged(state', "done")
    /\ UNCHANGED bootOverdue

\* ------------------------------------------------------ StateStore: lock
InQ(t) == SeqHas(waiters, t)

\* the event loop can run t now
CanRun(t) ==
    IF InQ(t) THEN running = NoTask /\ ~locked /\ Head(waiters) = t
    ELSE running \in {NoTask, t}

\* asyncio.Lock.acquire returns at once: t was woken as the first waiter, or
\* the lock is free and nobody waits
Granted(t) == InQ(t) \/ (~locked /\ waiters = <<>>)

\* acquire() parks t behind the other waiters; nothing else changes
Park(t) ==
    /\ waiters' = Append(waiters, t)
    /\ running' = NoTask
    /\ UNCHANGED <<locked, wr, now, state, file, shown, nextBid, taskVars, restarts, arrived,
                   faults, histVars>>

\* `async with self._lock` around a body without suspension: lock taken and
\* released in one step; t goes on running when `goesOn`, else it suspends
Locked(t, goesOn) ==
    /\ waiters' = IF InQ(t) THEN Tail(waiters) ELSE waiters
    /\ locked' = FALSE
    /\ running' = IF goesOn THEN t ELSE NoTask
    /\ UNCHANGED wr

\* save() that starts the write without keeping the lock
SaveBegin_NoLock(t) ==
    /\ waiters' = IF InQ(t) THEN Tail(waiters) ELSE waiters
    /\ locked' = FALSE
    /\ running' = NoTask
    /\ UNCHANGED wr

\* save(): the lock is taken and kept while the snapshot is written in a thread
SaveBegin(t) ==
    /\ waiters' = IF InQ(t) THEN Tail(waiters) ELSE waiters
    /\ locked' = TRUE
    /\ running' = NoTask
    /\ UNCHANGED wr

\* the document written straight to the final path
WritePath_InPlace == "final"

\* line 116: the path _write_json_atomic opens for writing
WritePath == "tmp"

\* open(path, "w"): the file at the path is there and empty
Opened(f, path) ==
    IF path = "tmp"
    THEN [f EXCEPT !.tmp = [exists |-> TRUE, whole |-> FALSE, data |-> json_dump(EmptyState)]]
    ELSE [f EXCEPT !.exists = TRUE, !.whole = FALSE, !.data = json_dump(EmptyState)]

\* json.dump, flush and fsync: the file at the path holds the whole document
Dumped(f, path, st) ==
    IF path = "tmp"
    THEN [f EXCEPT !.tmp = [exists |-> TRUE, whole |-> TRUE, data |-> json_dump(st)]]
    ELSE [f EXCEPT !.exists = TRUE, !.whole = TRUE, !.data = json_dump(st)]

\* lines 123-124: the thread opens the file for writing
WrOpen ==
    /\ locked
    /\ wr = "idle"
    /\ wr' = "open"
    /\ file' = Opened(file, WritePath)
    /\ UNCHANGED <<now, state, locked, waiters, running, shown, nextBid, taskVars, restarts,
                   arrived, faults, histVars>>

\* lines 124-126: the document is written out and synced
WrDump ==
    /\ wr = "open"
    /\ wr' = "dumped"
    /\ file' = Dumped(file, WritePath, state)
    /\ UNCHANGED <<now, state, locked, waiters, running, shown, nextBid, taskVars, restarts,
                   arrived, faults, histVars>>

\* the thread raises (OSError of open, write, fsync or os.replace): what it
\* wrote so far stays, the final path is not replaced
WrFail ==
    /\ locked
    /\ wr \in {"idle", "open", "dumped"}
    /\ faults < MaxFaults
    /\ faults' = faults + 1
    /\ wr' = "failed"
    /\ UNCHANGED <<now, state, file, locked, waiters, running, shown, nextBid, taskVars,
                   restarts, arrived, histVars>>

\* save() returns and the lock is released; the caller suspends on its next
\* network call.  The thread's remaining steps up to os.replace (line 127)
\* are taken here; after a failed write the `except Exception` of line 119
\* logs and save() returns all the same, with the final path as it was
SaveEnd ==
    /\ file' = IF wr = "failed" THEN file ELSE Snapshot(state)
    /\ wr' = "idle"
    /\ locked' = FALSE
    /\ running' = NoTask
    /\ UNCHANGED waiters

\* ------------------------------------------------- StateStore: accessors
is_admin(uid) == uid \in ADMIN_IDS
\* the updater flipping the flag instead of setting it
SetExpired_Toggle(bc) == [bc EXCEPT !.expired = ~@]

Has(st, bid) == st.broadcasts[bid].id # 0
get_broadcast(st, bid) == IF Has(st, bid) THEN _from_dict(st.broadcasts[bid]) ELSE NoBc
upsert_broadcast(st, bc) == [st EXCEPT !.broadcasts[bc.id] = asdict(bc)]
SetExpired(bc) == [bc EXCEPT !.expired = TRUE]
update_broadcast(st, bid, bc) == [st EXCEPT !.broadcasts[bid] = asdict(bc)]
add_chat(st, c) == IF SeqHas(st.chats, c) THEN st ELSE [st EXCEPT !.chats = Append(@, c)]
remove_chat(st, c) == [st EXCEPT !.chats = SeqRemove(@, c)]

\* ------------------------------------------------------------- transport
\* bot.send_message that succeeds: the chat shows a new message
Send(sh, c, v) == [sh EXCEPT ![c] = Append(@, v)]
\* bot.edit_message_text that succeeds ("message is not modified" included)
Edit(sh, ref, v) == [sh EXCEPT ![ref.chat_id][ref.message_id] = v]

\* the transport answers one send or edit with outcome o
Answers(o) ==
    /\ o # "ok" => faults < MaxFaults
    /\ faults' = IF o = "ok" THEN faults ELSE faults + 1

\* a button `action:bid` is on some message of some chat
ButtonShown(action, bid) ==
    \E c \in Chats : \E m \in 1..Len(shown[c]) :
        shown[c][m].text.id = bid /\ action \in shown[c][m].kb

\* ----------------------------------------------------------- on_callback
\* lines 474-481: the update arrives, q.answer() is awaited
InFlight == Cardinality({t \in CbTasks : cbs[t].pc # "idle"})

CbArrive(t, action, bid, user, limit) ==
    /\ pi.pc = "done"
    /\ running = NoTask
    /\ cbs[t].pc = "idle"
    /\ \A u \in CbTasks : u[2] < t[2] => cbs[u].pc # "idle"
    /\ ButtonShown(action, bid)
    /\ InFlight < limit
    /\ arrived < MaxCallbacks
    /\ arrived' = arrived + 1
    /\ cbs' = [cbs EXCEPT ![t] = [CbIdle EXCEPT !.pc = "get", !.action = action,
                                                !.bid = bid, !.user = user]]
    /\ UNCHANGED <<now, state, file, lockVars, shown, nextBid, cr, rg, exs, pi, restarts, faults, histVars>>

\* the transition on the local copy once the actor is allowed
Transition(action, bc, user) ==
    CASE action = "claim" -> [bc EXCEPT !.claimed_by = Claimer(user, human_name(user))]
      [] action = "unclaim" -> [bc EXCEPT !.claimed_by = None]
      [] action = "done" -> [bc EXCEPT !.done = TRUE]

\* the actor taken for the claimant when the display names agree
IsClaimant_ByName(user, bc) == human_name(user) = ClaimerName(bc.claimed_by)

\* unclaim / done: the actor is the claimant (compared by id)
IsClaimant(user, bc) == user = ClaimerId(bc.claimed_by)

\* a check failed: q.answer(reason) is awaited, then the handler returns
CbReject(t, reason) ==
    cbs' = [cbs EXCEPT ![t].pc = "answer", ![t].result = reason]

\* the callback passed every check: the local copy carries the transition
CbAccept(t, bc) ==
    cbs' = [cbs EXCEPT ![t].pc = "upsert", ![t].result = "accepted",
                       ![t].bc = Transition(cbs[t].action, bc, cbs[t].user)]

\* lines 482-514 up to the next await: get_broadcast and the checks
CbGet(t) ==
    /\ cbs[t].pc = "get"
    /\ CanRun(t)
    /\ IF ~Granted(t) THEN Park(t)
       ELSE LET bc == get_broadcast(state, cbs[t].bid)
                a == cbs[t].action
            IN  /\ IF ~Has(state, cbs[t].bid) THEN CbReject(t, "notfound") /\ Locked(t, FALSE)
                   ELSE IF bc.expired THEN CbReject(t, "expired") /\ Locked(t, FALSE)
                   ELSE IF a = "claim" THEN
                        IF bc.claimed_by # None
                        THEN CbReject(t, "already") /\ Locked(t, FALSE)
                        ELSE CbAccept(t, bc) /\ Locked(t, TRUE)
                   ELSE IF bc.claimed_by = None
                        THEN CbReject(t, "notclaimed") /\ Locked(t, FALSE)
                   ELSE IF ~IsClaimant(cbs[t].user, bc)
                        THEN /\ cbs' = [cbs EXCEPT ![t].pc = "is_admin", ![t].bc = bc]
                             /\ Locked(t, TRUE)
                   ELSE CbAccept(t, bc) /\ Locked(t, TRUE)
                /\ UNCHANGED <<now, state, file, shown, nextBid, cr, rg, exs, pi, restarts, arrived, faults, histVars>>

\* lines 502 / 511: `await STATE.is_admin(user.id)` for an actor who is not
\* the claimant
CbIsAdmin(t) ==
    /\ cbs[t].pc = "is_admin"
    /\ CanRun(t)
    /\ IF ~Granted(t) THEN Park(t)
       ELSE /\ IF is_admin(cbs[t].user)
                  THEN CbAccept(t, cbs[t].bc) /\ Locked(t, TRUE)
                  ELSE CbReject(t, "forbidden") /\ Locked(t, FALSE)
            /\ UNCHANGED <<now, state, file, shown, nextBid, cr, rg, exs, pi, restarts, arrived, faults, histVars>>

\* line 516: the local copy replaces the stored record whole
CbUpsert(t) ==
    /\ cbs[t].pc = "upsert"
    /\ CanRun(t)
    /\ IF ~Granted(t) THEN Park(t)
       ELSE /\ state' = upsert_broadcast(state, cbs[t].bc)
            /\ cbs' = [cbs EXCEPT ![t].pc = "save"]
            /\ Locked(t, TRUE)
            /\ Seen
            /\ UNCHANGED <<now, file, shown, nextBid, cr, rg, exs, pi, restarts, arrived, faults>>

\* line 517: save() takes the lock and starts the write
CbSave(t) ==
    /\ cbs[t].pc = "save"
    /\ CanRun(t)
    /\ IF ~Granted(t) THEN Park(t)
       ELSE /\ SaveBegin(t)
            /\ cbs' = [cbs EXCEPT ![t].pc = "saving"]
            /\ UNCHANGED <<now, state, file, shown, nextBid, cr, rg, exs, pi, restarts, arrived, faults, histVars>>

\* line 517 returns; lines 519-520 enter the fan-out
CbSaved(t) ==
    /\ cbs[t].pc = "saving"
    /\ running = NoTask
    /\ SaveEnd
    /\ cbs' = [cbs EXCEPT ![t].pc = "edit", ![t].idx = 1]
    /\ UNCHANGED <<now, state, shown, nextBid, cr, rg, exs, pi, restarts, arrived, faults, histVars>>

\* the fan-out without its try/except: the first failed edit ends the handler
CbEdit_Abort(t, outcome) ==
    /\ cbs[t].pc = "edit"
    /\ Answers(outcome)
    /\ running = NoTask
    /\ cbs[t].idx <= Len(cbs[t].bc.messages)
    /\ LET bc == cbs[t].bc
           ref == bc.messages[cbs[t].idx]
       IN  IF outcome = "ok"
           THEN /\ shown' = Edit(shown, ref, View(render_message(bc), build_keyboard(bc)))
                /\ cbs' = [cbs EXCEPT ![t].idx = @ + 1]
           ELSE /\ shown' = shown
                /\ cbs' = [cbs EXCEPT ![t] = CbIdle]
    /\ UNCHANGED <<now, state, file, lockVars, nextBid, cr, rg, exs, pi, restarts, arrived, histVars>>

\* lines 520-524: one safe_edit_text of the fan-out; every exception is passed
CbEdit(t, outcome) ==
    /\ cbs[t].pc = "edit"
    /\ Answers(outcome)
    /\ running = NoTask
    /\ cbs[t].idx <= Len(cbs[t].bc.messages)
    /\ LET bc == cbs[t].bc
           ref == bc.messages[cbs[t].idx]
       IN  /\ shown' = IF outcome = "ok"
                       THEN Edit(shown, ref, View(render_message(bc), build_keyboard(bc)))
                       ELSE shown
           /\ cbs' = [cbs EXCEPT ![t].idx = @ + 1,
                                 ![t].forbidden = IF outcome = "forbidden"
                                                  THEN @ \cup {ref.chat_id} ELSE @]
    /\ UNCHANGED <<now, state, file, lockVars, nextBid, cr, rg, exs, pi, restarts, arrived, histVars>>

\* the rejected handler returns after its q.answer
CbAnswer(t) ==
    /\ cbs[t].pc = "answer"
    /\ running = NoTask
    /\ cbs' = [cbs EXCEPT ![t] = CbIdle]
    /\ UNCHANGED <<now, state, file, lockVars, shown, nextBid, cr, rg, exs, pi, restarts, arrived, faults, histVars>>

\* the accepted handler returns after the last edit of its fan-out
CbReturn(t) ==
    /\ cbs[t].pc = "edit"
    /\ running = NoTask
    /\ cbs[t].idx > Len(cbs[t].bc.messages)
    /\ cbs' = [cbs EXCEPT ![t] = CbIdle]
    /\ UNCHANGED <<now, state, file, lockVars, shown, nextBid, cr, rg, exs, pi, restarts, arrived, faults, histVars>>

\* ------------------------------------------ broadcast / broadcast_simple
\* broadcast: the /broadcast command arrives (line 389); broadcast_simple is
\* entered from new_callback with the text and ttl of the template or wizard
\* (lines 553, 597) and returns at once on an empty text (lines 604-606)
CrStart(kind, user, text, ttl) ==
    /\ pi.pc = "done"
    /\ running = NoTask
    /\ cr.pc = "idle"
    /\ nextBid <= MaxBroadcasts
    /\ cr' = [CrIdle EXCEPT !.kind = kind, !.user = user, !.text = text, !.ttl = ttl,
                            !.pc = IF kind = "broadcast" THEN "is_admin"
                                   ELSE IF text = "" THEN "reply" ELSE "list_chats",
                            !.reply = IF kind = "broadcast_simple" /\ text = ""
                                      THEN "emptytext" ELSE ""]
    /\ UNCHANGED <<now, state, file, lockVars, shown, nextBid, cbs, rg, exs, pi, restarts, arrived, faults, histVars>>

CrRefuse(reason) == cr' = [cr EXCEPT !.pc = "reply", !.reply = reason]

\* lines 390-392
CrIsAdmin ==
    /\ cr.pc = "is_admin"
    /\ CanRun(CrTask)
    /\ IF ~Granted(CrTask) THEN Park(CrTask)
       ELSE /\ IF is_admin(cr.user)
                  THEN cr' = [cr EXCEPT !.pc = "list_chats"] /\ Locked(CrTask, TRUE)
                  ELSE CrRefuse("notadmin") /\ Locked(CrTask, FALSE)
            /\ UNCHANGED <<now, state, file, shown, nextBid, cbs, rg, exs, pi, restarts, arrived, faults, histVars>>

\* lines 394-409 / 607-617: list_chats, the empty-registry and empty-text
\* returns, then the Broadcast object with a fresh id
NewBroadcast(chats) ==
    /\ cr' = [CrIdle EXCEPT !.pc = "upsert1", !.chats = chats,
                            !.bc = Broadcast(nextBid, cr.text, now, cr.ttl)]
    /\ nextBid' = nextBid + 1
    /\ Locked(CrTask, TRUE)

\* the registry check dropped: the handler goes on with no recipient
NoChats_Never(chats) == FALSE

\* lines 395 / 608: `if not chats`
NoChats(chats) == chats = <<>>

CrListChats ==
    /\ cr.pc = "list_chats"
    /\ CanRun(CrTask)
    /\ IF ~Granted(CrTask) THEN Park(CrTask)
       ELSE /\ IF NoChats(state.chats)
                  THEN CrRefuse("nochats") /\ Locked(CrTask, FALSE) /\ UNCHANGED nextBid
                  ELSE IF cr.text = ""
                  THEN CrRefuse("format") /\ Locked(CrTask, FALSE) /\ UNCHANGED nextBid
                  ELSE NewBroadcast(state.chats)
            /\ UNCHANGED <<now, state, file, shown, cbs, rg, exs, pi, restarts, arrived, faults, histVars>>

\* lines 410 / 618 (pc upsert1) and 433 / 634 (pc upsert2): the local copy
\* replaces the stored record whole
CrUpsert ==
    /\ cr.pc \in {"upsert1", "upsert2"}
    /\ CanRun(CrTask)
    /\ IF ~Granted(CrTask) THEN Park(CrTask)
       ELSE /\ state' = upsert_broadcast(state, cr.bc)
            /\ cr' = [cr EXCEPT !.pc = IF cr.pc = "upsert1" THEN "save1" ELSE "save2"]
            /\ Locked(CrTask, TRUE)
            /\ Seen
            /\ UNCHANGED <<now, file, shown, nextBid, cbs, rg, exs, pi, restarts, arrived, faults>>

\* lines 411 / 619 and 434 / 635: save() takes the lock
CrSave ==
    /\ cr.pc \in {"save1", "save2"}
    /\ CanRun(CrTask)
    /\ IF ~Granted(CrTask) THEN Park(CrTask)
       ELSE /\ SaveBegin(CrTask)
            /\ cr' = [cr EXCEPT !.pc = IF cr.pc = "save1" THEN "saving1" ELSE "saving2"]
            /\ UNCHANGED <<now, state, file, shown, nextBid, cbs, rg, exs, pi, restarts, arrived, faults, histVars>>

\* the first save returns; the send loop starts (no chat: it is skipped)
CrSaved1 ==
    /\ cr.pc = "saving1"
    /\ running = NoTask
    /\ SaveEnd
    /\ cr' = [cr EXCEPT !.pc = IF cr.chats = <<>> THEN "upsert2" ELSE "send", !.idx = 1]
    /\ UNCHANGED <<now, state, shown, nextBid, cbs, rg, exs, pi, restarts, arrived, faults, histVars>>

\* after one chat of the loop: the next send, or the final upsert
AfterChat == IF cr.idx = Len(cr.chats) THEN "upsert2" ELSE "send"

\* lines 414-430 / 622-632: one safe_send_text of the loop
CrSend(outcome) ==
    /\ cr.pc = "send"
    /\ Answers(outcome)
    /\ running = NoTask
    /\ LET cid == cr.chats[cr.idx]
           v == View(render_message(cr.bc), build_keyboard(cr.bc))
       IN  IF outcome = "ok"
           THEN /\ shown' = Send(shown, cid, v)
                /\ cr' = [cr EXCEPT !.bc.messages =
                                        Append(@, MessageRef(cid, Len(shown[cid]) + 1)),
                                    !.idx = @ + 1, !.pc = AfterChat,
                                    !.tries = 0, !.again = 0]
           ELSE IF outcome = "forbidden"
           THEN /\ cr' = [cr EXCEPT !.pc = "remove_chat", !.tries = 0, !.again = 0]
                /\ UNCHANGED shown
           ELSE /\ cr' = [cr EXCEPT !.idx = @ + 1, !.pc = AfterChat,
                                    !.tries = 0, !.again = 0]
                /\ UNCHANGED shown
    /\ UNCHANGED <<now, state, file, lockVars, nextBid, cbs, rg, exs, pi, restarts, arrived, histVars>>

\* lines 283-298: send_message of the running safe_send_text raised a
\* transient error.  RetryAfter: sleep, then the loop goes round again
\* (lines 291-292).  TimedOut / NetworkError: with tries < 3 count, sleep and
\* go round again (lines 294-297), else raise (line 298) into the
\* `except Exception` of the send loop (lines 428-430).  `again` counts the
\* times this call went round its loop
CrRetry(answer) ==
    /\ cr.pc = "send"
    /\ running = NoTask
    /\ cr.again < MaxAnswers
    /\ IF answer = "retry_after"
       THEN /\ cr' = [cr EXCEPT !.again = @ + 1]
            /\ UNCHANGED faults
       ELSE IF cr.tries < MaxTries
       THEN /\ cr' = [cr EXCEPT !.tries = @ + 1, !.again = @ + 1]
            /\ UNCHANGED faults
       ELSE /\ faults < MaxFaults
            /\ faults' = faults + 1
            /\ cr' = [cr EXCEPT !.idx = @ + 1, !.pc = AfterChat, !.tries = 0, !.again = 0]
    /\ UNCHANGED <<now, state, file, lockVars, shown, nextBid, cbs, rg, exs, pi, restarts,
                   arrived, histVars>>

\* lines 424-427 / 627-629: Forbidden drops the chat from the registry
CrRemoveChat ==
    /\ cr.pc = "remove_chat"
    /\ CanRun(CrTask)
    /\ IF ~Granted(CrTask) THEN Park(CrTask)
       ELSE /\ state' = remove_chat(state, cr.chats[cr.idx])
            /\ cr' = [cr EXCEPT !.idx = @ + 1, !.pc = AfterChat]
            /\ Locked(CrTask, AfterChat = "upsert2")
            /\ Seen
            /\ UNCHANGED <<now, file, shown, nextBid, cbs, rg, exs, pi, restarts, arrived, faults>>

\* schedule_expiration (lines 444-451): the job fires at now + delay_sec
Armed(bc) == [ExIdle EXCEPT !.pc = "armed",
                            !.at = now + IF deadline_ts(bc) - now > 0
                                         THEN deadline_ts(bc) - now ELSE 0]

\* the final save returns; lines 437-442 / 636-639: the expiry is scheduled
\* and the counts are sent to the caller
CrSaved2 ==
    /\ cr.pc = "saving2"
    /\ running = NoTask
    /\ SaveEnd
    /\ exs' = [exs EXCEPT ![cr.bc.id] = Armed(cr.bc)]
    /\ cr' = [cr EXCEPT !.pc = "reply", !.reply = "sent"]
    /\ UNCHANGED <<now, state, shown, nextBid, cbs, rg, pi, restarts, arrived, faults, histVars>>

\* the handler returns after its reply_text
CrReply ==
    /\ cr.pc = "reply"
    /\ running = NoTask
    /\ cr' = CrIdle
    /\ UNCHANGED <<now, state, file, lockVars, shown, nextBid, cbs, rg, exs, pi, restarts, arrived, faults, histVars>>

\* ------------------------------------------------------------ expire_job
\* lines 454-457: the job queue, started after post_init, runs the job at its
\* time; update_broadcast sets expired on the stored record and gives the
\* updated copy
ExUpdate(b) ==
    /\ pi.pc = "done"
    /\ exs[b].pc = "armed"
    /\ now >= exs[b].at
    /\ CanRun(ExTask(b))
    /\ IF ~Granted(ExTask(b)) THEN Park(ExTask(b))
       ELSE /\ IF ~Has(state, b)
                  THEN /\ exs' = [exs EXCEPT ![b] = ExIdle]
                       /\ Locked(ExTask(b), FALSE)
                       /\ UNCHANGED state
                  ELSE LET bc == SetExpired(get_broadcast(state, b))
                       IN  /\ state' = update_broadcast(state, b, bc)
                           /\ exs' = [exs EXCEPT ![b].pc = "save", ![b].bc = bc]
                           /\ Locked(ExTask(b), TRUE)
            /\ Seen
            /\ UNCHANGED <<now, file, shown, nextBid, cbs, cr, rg, pi, restarts, arrived, faults>>

\* line 458: save() takes the lock
ExSave(b) ==
    /\ exs[b].pc = "save"
    /\ CanRun(ExTask(b))
    /\ IF ~Granted(ExTask(b)) THEN Park(ExTask(b))
       ELSE /\ SaveBegin(ExTask(b))
            /\ exs' = [exs EXCEPT ![b].pc = "saving"]
            /\ UNCHANGED <<now, state, file, shown, nextBid, cbs, cr, rg, pi, restarts, arrived, faults, histVars>>

\* line 458 returns
ExSaved(b) ==
    /\ exs[b].pc = "saving"
    /\ running = NoTask
    /\ SaveEnd
    /\ exs' = [exs EXCEPT ![b].pc = "edit", ![b].idx = 1]
    /\ UNCHANGED <<now, state, shown, nextBid, cbs, cr, rg, pi, restarts, arrived, faults, histVars>>

\* lines 461-468: one safe_edit_text, without keyboard; Forbidden is ignored
\* and any other exception logged
ExEdit(b, outcome) ==
    /\ exs[b].pc = "edit"
    /\ Answers(outcome)
    /\ running = NoTask
    /\ exs[b].idx <= Len(exs[b].bc.messages)
    /\ LET bc == exs[b].bc
           ref == bc.messages[exs[b].idx]
       IN  shown' = IF outcome = "ok" THEN Edit(shown, ref, View(render_message(bc), {}))
                    ELSE shown
    /\ exs' = [exs EXCEPT ![b].idx = @ + 1]
    /\ UNCHANGED <<now, state, file, lockVars, nextBid, cbs, cr, rg, pi, restarts, arrived, histVars>>

\* the job returns after its last edit
ExReturn(b) ==
    /\ exs[b].pc = "edit"
    /\ running = NoTask
    /\ exs[b].idx > Len(exs[b].bc.messages)
    /\ exs' = [exs EXCEPT ![b] = ExIdle]
    /\ UNCHANGED <<now, state, file, lockVars, shown, nextBid, cbs, cr, rg, pi, restarts, arrived, faults, histVars>>

\* ----------------------------------------- register_chat / unregister_chat
\* the /register or /unregister command arrives (lines 339, 353)
RgStart(op, user, chat) ==
    /\ pi.pc = "done"
    /\ running = NoTask
    /\ rg.pc = "idle"
    /\ rg' = [RgIdle EXCEPT !.pc = "is_admin", !.op = op, !.user = user, !.chat = chat]
    /\ UNCHANGED <<now, state, file, lockVars, shown, nextBid, cbs, cr, exs, pi, restarts, arrived, faults, histVars>>

\* lines 340-342 / 354-356
RgIsAdmin ==
    /\ rg.pc = "is_admin"
    /\ CanRun(RgTask)
    /\ IF ~Granted(RgTask) THEN Park(RgTask)
       ELSE /\ IF is_admin(rg.user)
                  THEN rg' = [rg EXCEPT !.pc = "mutate"] /\ Locked(RgTask, TRUE)
                  ELSE rg' = [rg EXCEPT !.pc = "reply", !.reply = "notadmin"]
                       /\ Locked(RgTask, FALSE)
            /\ UNCHANGED <<now, state, file, shown, nextBid, cbs, cr, exs, pi, restarts, arrived, faults, histVars>>

\* lines 346-351 / 357-362: add_chat or remove_chat; save only on a change
RgMutate ==
    /\ rg.pc = "mutate"
    /\ CanRun(RgTask)
    /\ IF ~Granted(RgTask) THEN Park(RgTask)
       ELSE LET changed == IF rg.op = "register" THEN ~SeqHas(state.chats, rg.chat)
                           ELSE SeqHas(state.chats, rg.chat)
            IN  /\ state' = IF rg.op = "register" THEN add_chat(state, rg.chat)
                            ELSE remove_chat(state, rg.chat)
                /\ IF changed
                      THEN rg' = [rg EXCEPT !.pc = "save"] /\ Locked(RgTask, TRUE)
                      ELSE rg' = [rg EXCEPT !.pc = "reply", !.reply = "nochange"]
                           /\ Locked(RgTask, FALSE)
                /\ Seen
            /\ UNCHANGED <<now, file, shown, nextBid, cbs, cr, exs, pi, restarts, arrived, faults>>

\* lines 348 / 359: save() takes the lock
RgSave ==
    /\ rg.pc = "save"
    /\ CanRun(RgTask)
    /\ IF ~Granted(RgTask) THEN Park(RgTask)
       ELSE /\ SaveBegin(RgTask)
            /\ rg' = [rg EXCEPT !.pc = "saving"]
            /\ UNCHANGED <<now, state, file, shown, nextBid, cbs, cr, exs, pi, restarts, arrived, faults, histVars>>

\* save() returns, the confirmation is sent
RgSaved ==
    /\ rg.pc = "saving"
    /\ running = NoTask
    /\ SaveEnd
    /\ rg' = [rg EXCEPT !.pc = "reply", !.reply = "changed"]
    /\ UNCHANGED <<now, state, shown, nextBid, cbs, cr, exs, pi, restarts, arrived, faults, histVars>>

\* the handler returns after its reply_text
RgReply ==
    /\ rg.pc = "reply"
    /\ running = NoTask
    /\ rg' = RgIdle
    /\ UNCHANGED <<now, state, file, lockVars, shown, nextBid, cbs, cr, exs, pi, restarts, arrived, faults, histVars>>

\* -------------------------------------------------------------- post_init
\* post_init runs before the application takes updates or runs jobs (it is
\* the builder's post_init hook, line 704), so nothing contends for the lock

\* StateStore.load on the fresh store: the document of the file; without a
\* file, or when json.load raises, the initial _state stays
load(f) == IF f.exists /\ f.whole THEN json_load(f.data) ELSE EmptyState

\* iter_broadcasts: the stored broadcasts, in order
RECURSIVE BcList(_, _)
BcList(st, b) ==
    IF b > MaxBroadcasts THEN <<>>
    ELSE (IF Has(st, b) THEN <<_from_dict(st.broadcasts[b])>> ELSE <<>>) \o BcList(st, b + 1)
iter_broadcasts(st) == BcList(st, 1)

\* the deadline test with < for <=: a deadline that falls on the start
\* instant is not taken as passed
IsOverdue_Strict(bc, t) == deadline_ts(bc) < t

\* line 662
IsOverdue(bc, t) == deadline_ts(bc) <= t

\* lines 657-658
PiLoad ==
    /\ pi.pc = "load"
    /\ state' = load(file)
    /\ pi' = [pi EXCEPT !.pc = "loop", !.todo = iter_broadcasts(load(file))]
    /\ everExpired' = Flagged(state', "expired")
    /\ everDone' = Flagged(state', "done")
    /\ bootOverdue' = {b \in Bids : LET bc == get_broadcast(state', b)
                                    IN  /\ Has(state', b) /\ ~bc.done /\ ~bc.expired
                                        /\ deadline_ts(bc) <= now}
    /\ UNCHANGED <<now, file, lockVars, shown, nextBid, cbs, cr, rg, exs, restarts, arrived, faults>>

\* lines 659-665 and 676-679 for the next broadcast of the list
PiLoop ==
    /\ pi.pc = "loop"
    /\ IF pi.todo = <<>>
       THEN pi' = [pi EXCEPT !.pc = "done"] /\ UNCHANGED <<state, exs>>
       ELSE LET bc == Head(pi.todo)
            IN  IF bc.done \/ bc.expired
                THEN pi' = [pi EXCEPT !.todo = Tail(@)] /\ UNCHANGED <<state, exs>>
                ELSE IF IsOverdue(bc, now)
                THEN /\ state' = update_broadcast(state, bc.id,
                                     SetExpired(get_broadcast(state, bc.id)))
                     /\ pi' = [pi EXCEPT !.pc = "save", !.bc = bc, !.todo = Tail(@)]
                     /\ UNCHANGED exs
                ELSE /\ exs' = [exs EXCEPT ![bc.id] = Armed(bc)]
                     /\ pi' = [pi EXCEPT !.todo = Tail(@)]
                     /\ UNCHANGED state
    /\ Seen
    /\ UNCHANGED <<now, file, lockVars, shown, nextBid, cbs, cr, rg, restarts, arrived, faults>>

\* line 665
PiSave ==
    /\ pi.pc = "save"
    /\ file' = Snapshot(state)
    /\ pi' = [pi EXCEPT !.pc = "edit", !.idx = 1]
    /\ UNCHANGED <<now, state, lockVars, shown, nextBid, cbs, cr, rg, exs, restarts, arrived, faults, histVars>>

\* lines 666-675: one edit_message_text with the text of the copy taken
\* before the update and no reply_markup; every exception is passed
PiEdit(outcome) ==
    /\ pi.pc = "edit"
    /\ Answers(outcome)
    /\ pi.idx <= Len(pi.bc.messages)
    /\ shown' = IF outcome = "ok"
                THEN Edit(shown, pi.bc.messages[pi.idx], View(render_message(pi.bc), {}))
                ELSE shown
    /\ pi' = [pi EXCEPT !.idx = @ + 1]
    /\ UNCHANGED <<now, state, file, lockVars, nextBid, cbs, cr, rg, exs, restarts, arrived, histVars>>

\* the edits of this broadcast are through: on to the next one
PiNext ==
    /\ pi.pc = "edit"
    /\ pi.idx > Len(pi.bc.messages)
    /\ pi' = [pi EXCEPT !.pc = "loop", !.bc = NoBc, !.idx = 0]
    /\ UNCHANGED <<now, state, file, lockVars, shown, nextBid, cbs, cr, rg, exs, restarts, arrived, faults, histVars>>

\* ------------------------------------------------------------ environment
\* the clock advances by a minute
Tick ==
    /\ running = NoTask
    /\ now < MaxTicks * SecPerMin
    /\ now' = now + SecPerMin
    /\ UNCHANGED <<state, file, lockVars, shown, nextBid, taskVars, restarts, arrived, faults,
                   histVars>>

\* the process dies and is started again: memory, tasks and jobs are gone,
\* the snapshot file and the chats' messages stay; main builds the store
\* anew and post_init runs
Restart ==
    /\ restarts < MaxRestarts
    /\ restarts' = restarts + 1
    /\ state' = EmptyState
    /\ locked' = FALSE
    /\ waiters' = <<>>
    /\ running' = NoTask
    /\ wr' = "idle"
    /\ cbs' = [t \in CbTasks |-> CbIdle]
    /\ cr' = CrIdle
    /\ rg' = RgIdle
    /\ exs' = [b \in Bids |-> ExIdle]
    /\ pi' = PiBoot
    /\ everExpired' = {}
    /\ everDone' = {}
    /\ bootOverdue' = {}
    /\ UNCHANGED <<now, file, shown, nextBid, arrived, faults>>

\* ------------------------------------------------------- specifications
\* the steps of the handlers that create broadcasts and of the expiry jobs
Creation ==
    \/ \E k \in {"broadcast", "broadcast_simple"} : \E u \in Users :
           \E x \in Texts : \E m \in TtlChoices : CrStart(k, u, x, m)
    \/ CrIsAdmin
    \/ CrListChats
    \/ CrUpsert
    \/ CrSave
    \/ CrSaved1
    \/ \E o \in Outcomes : CrSend(o)
    \/ CrRemoveChat
    \/ CrSaved2
    \/ CrReply

Expiry ==
    \/ \E b \in Bids : ExUpdate(b)
    \/ \E b \in Bids : ExSave(b)
    \/ \E b \in Bids : ExSaved(b)
    \/ \E b \in Bids : \E o \in Outcomes : ExEdit(b, o)
    \/ \E b \in Bids : ExReturn(b)

\* the callback steps once a query has arrived
Callback ==
    \/ \E t \in CbTasks : CbGet(t)
    \/ \E t \in CbTasks : CbIsAdmin(t)
    \/ \E t \in CbTasks : CbUpsert(t)
    \/ \E t \in CbTasks : CbSave(t)
    \/ \E t \in CbTasks : CbSaved(t)
    \/ \E t \in CbTasks : \E o \in Outcomes : CbEdit(t, o)
    \/ \E t \in CbTasks : CbAnswer(t)
    \/ \E t \in CbTasks : CbReturn(t)

Registry ==
    \/ \E o \in {"register", "unregister"} : \E u \in Users : \E c \in Chats :
           RgStart(o, u, c)
    \/ RgIsAdmin
    \/ RgMutate
    \/ RgSave
    \/ RgSaved
    \/ RgReply

\* Spec: one process with restarts; callbacks are handled one at a time
Next ==
    \/ \E t \in CbTasks : \E a \in Actions : \E b \in Bids : \E u \in Users :
           CbArrive(t, a, b, u, MaxInFlight)
    \/ Callback
    \/ Creation
    \/ Expiry
    \/ PiLoad
    \/ PiLoop
    \/ PiSave
    \/ \E o \in Outcomes : PiEdit(o)
    \/ PiNext
    \/ Tick
    \/ Restart

Spec == Init /\ [][Next]_vars

\* SpecRace: one process life; one more callback may be in flight
NextRace ==
    \/ \E t \in CbTasks : \E a \in Actions : \E b \in Bids : \E u \in Users :
           CbArrive(t, a, b, u, MaxInFlight + 1)
    \/ Callback
    \/ Creation
    \/ Expiry
    \/ PiLoad
    \/ PiLoop
    \/ Tick

SpecRace == Init /\ [][NextRace]_vars

\* SpecRegistry: the first start, the registry commands and creations
NextRegistry ==
    \/ Registry
    \/ Creation
    \/ Expiry
    \/ PiLoad
    \/ PiLoop
    \/ Tick

SpecRegistry == InitFresh /\ [][NextRegistry]_vars

\* SpecDisk: the steps of the writing thread, its failures and crashes, with
\* callbacks and creations as the writers
NextDisk ==
    \/ \E t \in CbTasks : \E a \in Actions : \E b \in Bids : \E u \in Users :
           CbArrive(t, a, b, u, MaxInFlight)
    \/ Callback
    \/ Creation
    \/ WrOpen
    \/ WrDump
    \/ WrFail
    \/ PiLoad
    \/ PiLoop
    \/ Restart

SpecDisk == Init /\ [][NextDisk]_vars

\* SpecOverlap: a registry command whose save holds the lock while a creation
\* fans out and a callback on the new broadcast arrives
NextOverlap ==
    \/ \E t \in CbTasks : \E a \in Actions : \E b \in Bids : \E u \in Users :
           CbArrive(t, a, b, u, MaxInFlight)
    \/ Callback
    \/ Creation
    \/ Registry
    \/ PiLoad
    \/ PiLoop

SpecOverlap == Init /\ [][NextOverlap]_vars

\* SpecSend: creations whose sends meet transient errors of the transport,
\* with crashes
NextSend ==
    \/ Creation
    \/ \E a \in Transients : CrRetry(a)
    \/ PiLoad
    \/ PiLoop
    \/ Restart

SpecSend == Init /\ [][NextSend]_vars

\* ------------------------------------------------------------------ claims
Stored(b) == get_broadcast(state, b)

\* the step of t that ends get_broadcast and the checks after it
GetStep(t) == cbs[t].pc = "get" /\ cbs'[t].pc \in {"answer", "is_admin", "upsert"}

\* the step of t that writes its copy back
UpsertStep(t) == cbs[t].pc = "upsert" /\ cbs'[t].pc = "save"

\* C1: of two claim callbacks from distinct actors in flight on the same open
\* broadcast, at most one passes the checks: never are both accepted and
\* about to write their claim.
C1_OneClaimWins ==
    \A t1, t2 \in CbTasks :
        ~ /\ t1 # t2
          /\ cbs[t1].action = "claim" /\ cbs[t2].action = "claim"
          /\ cbs[t1].bid = cbs[t2].bid
          /\ cbs[t1].user # cbs[t2].user
          /\ cbs[t1].pc = "upsert" /\ cbs[t2].pc = "upsert"

\* C2: in every state of the store, a broadcast that is done is claimed.
C2_DoneImpliesClaimed ==
    \A b \in Bids : (Has(state, b) /\ Stored(b).done) => Stored(b).claimed_by # None

\* C3: the stored done and expired flags never go from true to false.
C3_FlagsMonotonic ==
    [][\A b \in Bids :
          (Has(state, b) /\ Has(state', b)) =>
              /\ Stored(b).done => state'.broadcasts[b].done
              /\ Stored(b).expired => state'.broadcasts[b].expired]_vars

\* C4: once the stored expired flag of a broadcast has been true, a callback
\* on it is rejected with the expired reason, and no callback writes to its
\* record.
C4_ExpiredRejects ==
    [][\A t \in CbTasks :
          /\ (GetStep(t) /\ cbs[t].bid \in everExpired) =>
                 (cbs'[t].pc = "answer" /\ cbs'[t].result = "expired")
          /\ (UpsertStep(t) /\ cbs[t].bid \in everExpired) =>
                 state'.broadcasts[cbs[t].bid] = state.broadcasts[cbs[t].bid]]_vars

\* C5: no callback is accepted on a broadcast whose stored done flag is true.
C5_DoneIsTerminal ==
    [][\A t \in CbTasks :
          (cbs[t].result # "accepted" /\ cbs'[t].result = "accepted") =>
              ~(Has(state, cbs'[t].bid) /\ Stored(cbs'[t].bid).done)]_vars

\* C6: expire_job on a broadcast that is done leaves its record as it was.
C6_ExpireOnDoneNoOp ==
    [][\A b \in Bids :
          (exs[b].pc = "armed" /\ exs'[b].pc = "save" /\ Stored(b).done) =>
              state'.broadcasts[b] = state.broadcasts[b]]_vars

\* C7: a broadcast that the loaded snapshot holds open or claimed with its
\* deadline passed is expired in the store once post_init is through, and no
\* callback on it is accepted in that process life.
C7_OverdueExpiredAtBoot ==
    \A b \in bootOverdue :
        /\ pi.pc = "done" => Stored(b).expired
        /\ \A t \in CbTasks : cbs[t].bid = b => cbs[t].result # "accepted"

\* C7 witness: after a start that found an overdue broadcast, a callback on
\* it has been answered with the expired reason
C7_Witness ==
    \E t \in CbTasks :
        /\ cbs[t].bid \in bootOverdue
        /\ pi.pc = "done"
        /\ cbs[t].result = "expired"

\* nothing is in progress or scheduled for broadcast b
Quiet(b) ==
    /\ pi.pc = "done"
    /\ exs[b].pc = "none"
    /\ cr.pc = "idle"
    /\ \A t \in CbTasks : cbs[t].pc = "idle"

\* C8: a broadcast that was never done is expired once its expiry job has
\* run and nothing is in progress or scheduled for it any more.
C8_ExpiredWhenJobsRan ==
    \A b \in Bids : (Has(state, b) /\ Quiet(b) /\ b \notin everDone) => Stored(b).expired

\* the fan-out of t is through
FanOutDone(t) == cbs[t].pc = "edit" /\ cbs[t].idx > Len(cbs[t].bc.messages)

\* C9: when the fan-out of an accepted claim is through and a push failed
\* with Forbidden, that chat is out of the registry and its reference out of
\* the record, the other chats show the claimed render, and the claim stands.
C9_ForbiddenDropsRecipient ==
    \A t \in CbTasks :
        (FanOutDone(t) /\ cbs[t].action = "claim" /\ cbs[t].forbidden # {}) =>
            LET bc == cbs[t].bc
            IN  /\ \A c \in cbs[t].forbidden :
                       /\ ~SeqHas(state.chats, c)
                       /\ \A i \in 1..Len(Stored(bc.id).messages) :
                              Stored(bc.id).messages[i].chat_id # c
                /\ \A i \in 1..Len(bc.messages) :
                       bc.messages[i].chat_id \notin cbs[t].forbidden =>
                           shown[bc.messages[i].chat_id][bc.messages[i].message_id].text.status
                               \in {"claimed", "done", "expired"}
                /\ Stored(bc.id).claimed_by # None

\* the step of the creation handler that ends list_chats and its checks
ListChatsStep == cr.pc = "list_chats" /\ cr'.pc \in {"reply", "upsert1"}

\* C10 as claimed: with an empty registry the creation goes on to store a
\* new record with no messages, and no error is reported.
C10_CreatesWithoutRecipients ==
    [][(ListChatsStep /\ state.chats = <<>>) =>
           (cr'.pc = "upsert1" /\ cr'.bc.messages = <<>> /\ cr'.reply = "")]_vars

\* C10 amended: with an empty registry the creation is refused: the caller is
\* told that no chat is registered, no broadcast id is taken, and the handler
\* returns without a change to the store.
C10_RefusedWithoutRecipients ==
    [][/\ (ListChatsStep /\ state.chats = <<>>) =>
              /\ cr'.pc = "reply" /\ cr'.reply = "nochats"
              /\ state' = state /\ nextBid' = nextBid
       /\ (cr.pc = "reply" /\ cr.reply = "nochats" /\ cr' # cr) =>
              (cr' = CrIdle /\ state' = state /\ nextBid' = nextBid)]_vars

\* C10 witness: a creation was refused for want of registered chats
C10_Witness == cr.pc = "reply" /\ cr.reply = "nochats"

\* the step of t on which its save() returns
SaveReturns(t) == cbs[t].pc = "saving" /\ cbs'[t].pc # "saving" /\ restarts' = restarts

\* C11: when the write of the save that follows a callback's mutation has
\* failed, the callback does not go on as accepted and the record in memory
\* is the durable one again.
C11_FailedSaveNotCommitted ==
    [][\A t \in CbTasks :
          (SaveReturns(t) /\ wr = "failed") =>
              /\ cbs'[t].result # "accepted"
              /\ get_broadcast(state', cbs[t].bid) = get_broadcast(load(file'), cbs[t].bid)]_vars

\* no handler and no expiry job is in progress (a job may be waiting for its
\* time) in a process that was never restarted
AtRest(b) ==
    /\ pi.pc = "done"
    /\ restarts = 0
    /\ cr.pc = "idle"
    /\ \A t \in CbTasks : cbs[t].pc = "idle"
    /\ exs[b].pc \in {"none", "armed"}
    /\ ~InQ(ExTask(b))

\* C12: with nothing in progress and no delivery failed, every recorded
\* message of a broadcast shows the render and the actions of the stored
\* record.
C12_RendersMatchStore ==
    \A b \in Bids :
        (Has(state, b) /\ AtRest(b) /\ faults = 0) =>
            \A i \in 1..Len(Stored(b).messages) :
                LET ref == Stored(b).messages[i]
                IN  shown[ref.chat_id][ref.message_id] =
                        View(render_message(Stored(b)), build_keyboard(Stored(b)))

\* the status of a record by priority expired > done > claimed > open
StatusOf(bc) ==
    IF bc.expired THEN "expired"
    ELSE IF bc.done THEN "done"
    ELSE IF bc.claimed_by # None THEN "claimed"
    ELSE "open"

\* the actions a status admits
ActionsOf(status) ==
    CASE status = "open" -> {"claim"}
      [] status = "claimed" -> {"unclaim", "done"}
      [] OTHER -> {}

\* C13: for the stored record and for the copy a callback renders in its
\* fan-out, render_message gives the status by priority and build_keyboard
\* gives exactly the actions of that status.
C13_RenderAndKeyboardByStatus ==
    /\ \A b \in Bids :
           Has(state, b) =>
               /\ render_message(Stored(b)).status = StatusOf(Stored(b))
               /\ build_keyboard(Stored(b)) = ActionsOf(StatusOf(Stored(b)))
    /\ \A t \in CbTasks :
           cbs[t].pc = "edit" =>
               /\ render_message(cbs[t].bc).status = StatusOf(cbs[t].bc)
               /\ build_keyboard(cbs[t].bc) = ActionsOf(StatusOf(cbs[t].bc))

\* C14: on every step, a crash and a step of the writing thread included,
\* the file at the final path holds a complete document, and it is the
\* document it held before or the snapshot of the state being saved.
C14_FinalFileWhole ==
    [][file'.exists =>
          /\ file'.whole
          /\ (file'.data = file.data \/ file'.data = json_dump(state))]_vars

\* C14 witness: the process crashed while the thread was writing: the
\* temporary file is left half written, the final file is a whole document
C14_Witness ==
    /\ restarts > 0
    /\ file.tmp.exists /\ ~file.tmp.whole
    /\ file.exists /\ file.whole

\* the record the checks of t are made on: the stored one while t is at
\* get_broadcast, the copy it took once it is past it
Checked(t) == IF cbs[t].pc = "get" THEN Stored(cbs[t].bid) ELSE cbs[t].bc

\* the step on which the unclaim or done callback t, on a claimed record
\* that is not expired, is accepted or rejected
Decides(t) ==
    /\ cbs[t].action \in {"unclaim", "done"}
    /\ cbs[t].pc \in {"get", "is_admin"}
    /\ cbs'[t].pc \in {"answer", "upsert"}
    /\ cbs[t].pc = "get" => (Has(state, cbs[t].bid) /\ ~Checked(t).expired)
    /\ Checked(t).claimed_by # None

\* C15: an unclaim or done callback is accepted when the actor's id is the
\* claimant's id or an admin's; from any other actor it is rejected as
\* forbidden and the store is left as it was.
C15_OnlyClaimantOrAdmin ==
    [][\A t \in CbTasks :
          Decides(t) =>
              IF cbs[t].user = ClaimerId(Checked(t).claimed_by) \/ cbs[t].user \in ADMIN_IDS
              THEN cbs'[t].pc = "upsert" /\ cbs'[t].result = "accepted"
              ELSE cbs'[t].pc = "answer" /\ cbs'[t].result = "forbidden" /\ state' = state]_vars

\* C15 witness: an unclaim or done callback of an actor who is neither the
\* claimant nor an admin was rejected
C15_Witness ==
    \E t \in CbTasks :
        /\ cbs[t].action \in {"unclaim", "done"}
        /\ cbs[t].pc = "answer"
        /\ cbs[t].result = "forbidden"

\* the step on which expire_job, or post_init for an overdue record, runs
\* the expire transition on broadcast b
ExpireStep(b) ==
    \/ exs[b].pc = "armed" /\ exs'[b].pc = "save"
    \/ pi.pc = "loop" /\ pi'.pc = "save" /\ pi'.bc.id = b

\* the step on which post_init looks at broadcast b
StartupCheck(b) ==
    /\ pi.pc = "loop" /\ pi.todo # <<>> /\ Head(pi.todo).id = b
    /\ pi' # pi /\ restarts' = restarts

\* C16: the expire transition sets expired and nothing else, running it
\* again on its result leaves the store as it is, and the startup check on a
\* record that is expired already changes nothing and arms no job.
C16_ExpireIdempotent ==
    [][\A b \in Bids :
          /\ ExpireStep(b) =>
                 /\ get_broadcast(state', b) = [Stored(b) EXCEPT !.expired = TRUE]
                 /\ update_broadcast(state', b, SetExpired(get_broadcast(state', b))) = state'
          /\ (StartupCheck(b) /\ Stored(b).expired) => (state' = state /\ exs' = exs)]_vars

\* C16 witness: expire_job expired the broadcast in the first process life,
\* and after a restart the startup check comes to the expired record
C16_Witness ==
    /\ restarts > 0
    /\ pi.pc = "loop"
    /\ pi.todo # <<>>
    /\ Head(pi.todo).expired

SaveWrites == file' # file /\ file'.exists /\ file'.whole

\* C18: when save has written the store, a fresh StateStore that loads the
\* file holds the same chat list in the same order and the same set of
\* broadcasts, and each Broadcast read from it has the id, text, created_ts,
\* ttl_min, messages, claimed_by, done and expired of the saved one.
C18_SaveLoadRoundTrip ==
    [][SaveWrites =>
          LET fresh == load(file')
          IN  /\ fresh.chats = state.chats
              /\ \A b \in Bids :
                     /\ Has(fresh, b) <=> Has(state, b)
                     /\ Has(state, b) =>
                            /\ asdict(get_broadcast(fresh, b)) = state.broadcasts[b]
                            /\ get_broadcast(fresh, b).id = b]_vars

\* C18 witness: a process started after a crash has loaded a saved store with
\* a registered chat and a delivered, claimed broadcast
C18_Witness ==
    /\ restarts > 0
    /\ pi.pc # "load"
    /\ state = load(file)
    /\ state.chats # <<>>
    /\ \E b \in Bids :
           /\ Has(state, b)
           /\ Stored(b).claimed_by # None
           /\ Stored(b).messages # <<>>

\* C19: the stored claimed_by of a broadcast goes from an actor to null only
\* in the step in which an accepted unclaim callback on that broadcast
\* writes its copy back.
C19_ClaimErasedOnlyByUnclaim ==
    [][\A b \in Bids :
          (/\ Has(state, b) /\ Has(state', b)
           /\ Stored(b).claimed_by # None
           /\ get_broadcast(state', b).claimed_by = None) =>
              \E t \in CbTasks :
                  UpsertStep(t) /\ cbs[t].action = "unclaim" /\ cbs[t].bid = b]_vars

\* s is an initial part of t
IsPrefix(s, t) == Len(s) <= Len(t) /\ \A i \in 1..Len(s) : s[i] = t[i]

\* C20: the stored messages list of a broadcast only grows: no step of a
\* callback, an expire job or a creation removes or replaces a delivery
\* reference that the stored record holds.
C20_MessagesOnlyGrow ==
    [][\A b \in Bids :
          (Has(state, b) /\ Has(state', b)) =>
              IsPrefix(Stored(b).messages, get_broadcast(state', b).messages)]_vars

\* the tasks whose save() has a snapshot write (_write_json_atomic) under way
Writers ==
    {t \in CbTasks : cbs[t].pc = "saving"}
        \cup (IF cr.pc \in {"saving1", "saving2"} THEN {CrTask} ELSE {})
        \cup (IF rg.pc = "saving" THEN {RgTask} ELSE {})
        \cup {ExTask(b) : b \in {x \in Bids : exs[x].pc = "saving"}}

\* C21: at most one snapshot write is under way at any time, and while one
\* is under way no step of a handler or job changes the in-memory state
\* (upsert_broadcast, update_broadcast, add_chat, remove_chat).
C21_WritesAloneStateStill ==
    [][/\ Cardinality(Writers) <= 1
       /\ Cardinality(Writers') <= 1
       /\ (Writers # {} /\ restarts' = restarts) => state' = state]_vars

\* C21 witness: while the save of one handler writes, another handler or job
\* waits for the lock in front of its mutation of the state
C21_Witness ==
    /\ locked
    /\ Writers # {}
    /\ \/ InQ(CrTask) /\ cr.pc \in {"upsert1", "upsert2", "remove_chat"}
       \/ InQ(RgTask) /\ rg.pc = "mutate"
       \/ \E b \in Bids : InQ(ExTask(b)) /\ exs[b].pc = "armed"

\* C22: one safe_send_text goes round its retry loop at most MaxTries times,
\* whatever transient errors the transport answers with: after that it has
\* returned or given up with an error.
C22_SendGivesUp == cr.pc = "send" => cr.again <= MaxTries

\* the step on which an edit of post_init's loop is delivered
StartupPush == pi.pc = "edit" /\ pi'.idx = pi.idx + 1 /\ faults' = faults

\* C23: every edit that post_init delivers for an overdue broadcast it has
\* just expired puts on the message the render of the stored, updated
\* record, which shows the expired status, and no actions.
C23_StartupPushShowsExpired ==
    [][StartupPush =>
          LET ref == pi.bc.messages[pi.idx]
              v == shown'[ref.chat_id][ref.message_id]
          IN  /\ v.text = render_message(Stored(pi.bc.id))
              /\ v.text.status = "expired"
              /\ v.kb = {}]_vars

====
